---- MODULE Spec2Model ----
(***************************************************************************)
(* Model of the lazy-evaluation library: lazify, lazyToGreedy,             *)
(* lazyQuicksort (src/index.ts) and the combinators mapLazy, bindLazy,     *)
(* applyLazy (src/unnamed/part_001).                                       *)
(*                                                                         *)
(* A Lazy<T> is a closure () => T.  A closure made by lazify is modelled   *)
(* as the record [id, val]: id is the identity of the closure object (the  *)
(* order of allocation), val the captured value.  Forcing it reads val.    *)
(***************************************************************************)
EXTENDS Integers, Sequences, FiniteSets

\* Longest enumerated input array.
MaxLen == 3
\* Enumerated numbers are 0..MaxNum.
MaxNum == 2
\* Cap on the call stack of lazyQuicksort (never reached by the code).
MaxDepth == 8
\* Most combinator calls in one run.
MaxCalls == 3
\* Most forces of returned closures in one run.
MaxForces == 2

VARIABLES
    pc,          \* position of the main program
    input,       \* the greedy array handed to lazyToGreedy
    comparator,  \* which comparator the host supplies
    nextId,      \* identity of the next closure to be allocated
    unsortedArr, \* src/index.ts:19
    stack,       \* activation records of lazyQuicksort, innermost last
    sorted,      \* src/index.ts:20
    cmpCalls,    \* comparator invocations so far
    elemForces,  \* forces of element closures so far, by anyone
    cmpForces,   \* forces of element closures made by comparator results
    target,      \* which lazy array is being collapsed
    handles,     \* result of forcing the outer closure while collapsing
    greedy,      \* the collapsed array
    d,           \* the Lazy<T> handed to the combinators
    fn,          \* the function used as mapper, or inside the binder
    binder,      \* which binder is handed to bindLazy
    func,        \* the Lazy<(v: T) => U> handed to applyLazy
    calls,       \* calls made, per combinator
    dForces,     \* forces of d, per combinator that caused them
    funcForces,  \* forces of func
    fApps,       \* applications of mapper / binder / function, per combinator
    result,      \* the closure returned by the last call
    resOp,       \* the combinator that returned it
    forcedResults, \* forces of returned closures, per combinator
    failedAt,    \* where a failure surfaced, per combinator
    got          \* the value the last force of a result gave

sortVars == <<pc, input, comparator, nextId, unsortedArr, stack, sorted,
              cmpCalls, elemForces, cmpForces, target, handles, greedy>>

combVars == <<d, fn, binder, func, calls, dForces, funcForces, fApps,
              result, resOp, forcedResults, failedAt, got>>

vars == <<sortVars, combVars>>

----------------------------------------------------------------------------
\* Values: T extends Comparable = number | boolean.  A number is an IEEE
\* double: a finite one (integers here), an infinity, or NaN.

Fin(k) == [t |-> "fin", n |-> k]

\* Infinity (s = 1) and -Infinity (s = -1).
Inf(s) == [t |-> "inf", n |-> s]

NaN == [t |-> "nan", n |-> 0]

Bool(v) == [t |-> "bool", b |-> v]

Values == {Fin(k) : k \in 0..MaxNum} \cup {Inf(1)} \cup {Bool(v) : v \in BOOLEAN}

\* JavaScript ToNumber, as applied by the operator '-' to its operands.
ToNumber(v) == IF v.t = "bool" THEN Fin(IF v.b THEN 1 ELSE 0) ELSE v

\* a - b on numbers.
Minus(a, b) ==
    CASE a.t = "nan" \/ b.t = "nan" -> NaN
      [] a.t = "inf" /\ b.t = "inf"  -> IF a.n = b.n THEN NaN ELSE a
      [] a.t = "inf" /\ b.t = "fin"  -> a
      [] a.t = "fin" /\ b.t = "inf"  -> Inf(0 - b.n)
      [] a.t = "fin" /\ b.t = "fin"  -> Fin(a.n - b.n)

\* r <= 0 and r > 0 on numbers: both are false of NaN.
LeZero(r) == r.t \in {"fin", "inf"} /\ r.n <= 0

GtZero(r) == r.t \in {"fin", "inf"} /\ r.n > 0

\* The array of the article's example.
ArticleInput == <<Fin(2), Fin(4), Fin(1), Fin(3)>>

SeqsUpTo(S, n) == UNION {[1..k -> S] : k \in 0..n}

Inputs == SeqsUpTo(Values, MaxLen) \cup {ArticleInput}

----------------------------------------------------------------------------
\* Closures.

\* const lazify = (val) => (() => val), allocated with identity id.
lazify(val, id) == [id |-> id, val |-> val]

\* Calling a closure made by lazify.
Force(l) == l.val

\* The absent closure (an unset local).
None == [id |-> 0, val |-> <<>>]

\* Mutant of lazyToGreedy: the elements are wrapped in reverse order.
lazyToGreedyReversed(arr, id) ==
    lazify([i \in 1..Len(arr) |-> lazify(arr[Len(arr) + 1 - i], id + i - 1)],
           id + Len(arr))

\* lazyToGreedy: arr.map(l => lazify(l)) allocates one closure per element,
\* in order, then lazify allocates the outer one.
lazyToGreedy(arr, id) ==
    lazify([i \in 1..Len(arr) |-> lazify(arr[i], id + i - 1)], id + Len(arr))

\* lazyArr().map(l => l()): the elements of an already forced outer layer.
CollapseAll(hs) == [i \in 1..Len(hs) |-> Force(hs[i])]

----------------------------------------------------------------------------
\* Comparators the host may supply.  made is the number of invocations made
\* before this one (the state a stateful comparator closes over).
\*   sub : (a, b) => () => a() - b()            (src/index.ts:20)
\*   flip: (a, b) => () => (n++ % 2 ? 1 : -1)   (stateful, forces nothing,
\*                                                no consistent order)
Comparators == {"sub", "flip"}

\* comparator(a, b)(): the forced result, the element forces it made and the
\* identities of the arguments it was given.
Compare(cmp, a, b, made) ==
    [res    |-> CASE cmp = "sub"  -> Minus(ToNumber(Force(a)), ToNumber(Force(b)))
                  [] cmp = "flip" -> IF made % 2 = 0 THEN Fin(-1) ELSE Fin(1),
     forced |-> IF cmp = "sub" THEN 2 ELSE 0,
     a      |-> a.id,
     b      |-> b.id]

\* Mutant of InSmaller: ties with the pivot are not kept.
InSmallerStrict(r) == r.t \in {"fin", "inf"} /\ r.n < 0

\* The tests of the two filters.
InSmaller(r) == LeZero(r)

InBigger(r) == GtZero(r)

RECURSIVE Pick(_, _, _)
\* The subsequence of xs at the indices in keep, from index i on.
Pick(xs, keep, i) ==
    IF i > Len(xs) THEN <<>>
    ELSE (IF i \in keep THEN <<xs[i]>> ELSE <<>>) \o Pick(xs, keep, i + 1)

RECURSIVE SumForced(_, _)
\* Element forces made by the comparator invocations log[i..].
SumForced(log, i) ==
    IF i > Len(log) THEN 0 ELSE log[i].forced + SumForced(log, i + 1)

\* Mutant of Partition: the filter forces a and x itself before comparing.
PartitionForcing(xs, x, pass, cmp, calls0) ==
    LET c(i) == Compare(cmp, xs[i], x, calls0 + i - 1)
        keep == {i \in 1..Len(xs) :
                    IF pass = 1 THEN InSmaller(c(i).res) ELSE InBigger(c(i).res)}
        log  == [i \in 1..Len(xs) |->
                    [a |-> c(i).a, b |-> c(i).b, res |-> c(i).res,
                     forced |-> c(i).forced, pass |-> pass]]
    IN [pool   |-> Pick(xs, keep, 1),
        log    |-> log,
        forced |-> SumForced(log, 1),
        direct |-> 2 * Len(xs)]

\* Mutant of Partition: the comparator is called as comparator(x, a).
PartitionSwapped(xs, x, pass, cmp, calls0) ==
    LET c(i) == Compare(cmp, x, xs[i], calls0 + i - 1)
        keep == {i \in 1..Len(xs) :
                    IF pass = 1 THEN InSmaller(c(i).res) ELSE InBigger(c(i).res)}
        log  == [i \in 1..Len(xs) |->
                    [a |-> c(i).a, b |-> c(i).b, res |-> c(i).res,
                     forced |-> c(i).forced, pass |-> pass]]
    IN [pool   |-> Pick(xs, keep, 1),
        log    |-> log,
        forced |-> SumForced(log, 1),
        direct |-> 0]

\* xs.filter((a) => comparator(a, x)() <= 0)   (pass 1)
\* xs.filter((a) => comparator(a, x)() > 0)    (pass 2)
\* calls0 comparator invocations were made before the pass.  direct counts
\* the element forces made by the filter itself, outside the comparator.
Partition(xs, x, pass, cmp, calls0) ==
    LET c(i) == Compare(cmp, xs[i], x, calls0 + i - 1)
        keep == {i \in 1..Len(xs) :
                    IF pass = 1 THEN InSmaller(c(i).res) ELSE InBigger(c(i).res)}
        log  == [i \in 1..Len(xs) |->
                    [a |-> c(i).a, b |-> c(i).b, res |-> c(i).res,
                     forced |-> c(i).forced, pass |-> pass]]
    IN [pool   |-> Pick(xs, keep, 1),
        log    |-> log,
        forced |-> SumForced(log, 1),
        direct |-> 0]

\* Mutant of Concat: the two sorted pools change places.
ConcatSwapped(smaller, x, bigger) == Force(bigger) \o <<x>> \o Force(smaller)

\* Mutant of Concat: the pivot is left out.
ConcatNoPivot(smaller, x, bigger) == Force(smaller) \o Force(bigger)

\* [...smallerSorted(), x, ...biggerSorted()]
Concat(smaller, x, bigger) == Force(smaller) \o <<x>> \o Force(bigger)

----------------------------------------------------------------------------
\* The combinators (src/unnamed/part_001, lines 25-30).  Their closures carry
\* no identity; kind tells what the closure does when called:
\*   lazify: () => val            made by lazify
\*   throws: () => { throw ... }  a producer that fails
\*   late  : () => fn(val)        applies fn when called
\*   viaD  : () => fn(d())        forces d and applies fn when called
Closure(kind, val, f) == [kind |-> kind, val |-> val, fn |-> f]

\* lazify(val) of the combinators' file.
lazified(val) == Closure("lazify", val, "id")

\* lazify(f) for a function f: the closure's value is the function.
lazifiedFn(f) == Closure("lazify", 0, f)

Thrower == Closure("throws", 0, "id")

NoResult == Closure("none", 0, "id")

Ops == {"map", "bind", "apply"}

\* The functions used as mapper, inside a binder, or as the applied function.
Fns == {"id", "double", "throw"}

FnOk(f) == f # "throw"

\* f(v) for a function that returns: (l) => l and (l) => l * 2.
ApplyFn(f, v) == IF f = "double" THEN v * 2 ELSE v

\* The binders: l => lazify(fn(l)) (part_001:28) and l => () => fn(l).
Binders == {"lazifyFn", "lateFn"}

\* The values of d: 0..MaxNum and the 5 of the file's own example.
DValues == 0..MaxNum \cup {5}

\* Calling the closure t: whether it returned, what it gave, how often it
\* forced d and applied a function.
Run(t) ==
    CASE t.kind = "lazify" ->
            [ok |-> TRUE, val |-> t.val, dForced |-> 0, applied |-> 0]
      [] t.kind = "throws" ->
            [ok |-> FALSE, val |-> 0, dForced |-> 0, applied |-> 0]
      [] t.kind = "late" ->
            [ok |-> FnOk(t.fn), val |-> ApplyFn(t.fn, t.val), dForced |-> 0,
             applied |-> 1]
      [] t.kind = "viaD" ->
            [ok |-> d.kind = "lazify" /\ FnOk(t.fn),
             val |-> ApplyFn(t.fn, d.val), dForced |-> 1,
             applied |-> IF d.kind = "lazify" THEN 1 ELSE 0]

\* binder(v) for a binder that returns.
BinderResult(v) ==
    IF binder = "lazifyFn" THEN lazified(ApplyFn(fn, v)) ELSE Closure("late", v, fn)

BinderOk == binder = "lateFn" \/ FnOk(fn)

TotalCalls == calls["map"] + calls["bind"] + calls["apply"]

TotalForces == forcedResults["map"] + forcedResults["bind"] + forcedResults["apply"]

\* A call that throws returns nothing.
Throws(op) ==
    /\ failedAt' = [failedAt EXCEPT ![op] = "call"]
    /\ result' = NoResult
    /\ resOp' = "none"

Returns(op, t) ==
    /\ result' = t
    /\ resOp' = op
    /\ UNCHANGED failedAt

\* Mutant of CallMap: () => mapper(val()), nothing is done at the call.
CallMapDeferred ==
    /\ TotalCalls < MaxCalls
    /\ calls' = [calls EXCEPT !["map"] = @ + 1]
    /\ Returns("map", Closure("viaD", 0, fn))
    /\ UNCHANGED sortVars
    /\ UNCHANGED <<d, fn, binder, func, dForces, fApps, funcForces,
                   forcedResults, got>>

\* mapLazy(val, mapper) => lazify(mapper(val()))
CallMap ==
    /\ TotalCalls < MaxCalls
    /\ calls' = [calls EXCEPT !["map"] = @ + 1]
    /\ dForces' = [dForces EXCEPT !["map"] = @ + 1]
    /\ LET v == Run(d) IN
        IF ~v.ok
        THEN Throws("map") /\ UNCHANGED fApps
        ELSE /\ fApps' = [fApps EXCEPT !["map"] = @ + 1]
             /\ IF FnOk(fn)
                THEN Returns("map", lazified(ApplyFn(fn, v.val)))
                ELSE Throws("map")
    /\ UNCHANGED sortVars
    /\ UNCHANGED <<d, fn, binder, func, funcForces, forcedResults, got>>

\* Mutant of CallBind: () => binder(val())(), nothing is done at the call.
CallBindDeferred ==
    /\ TotalCalls < MaxCalls
    /\ calls' = [calls EXCEPT !["bind"] = @ + 1]
    /\ Returns("bind", Closure("viaD", 0, fn))
    /\ UNCHANGED sortVars
    /\ UNCHANGED <<d, fn, binder, func, dForces, fApps, funcForces,
                   forcedResults, got>>

\* bindLazy(val, binder) => binder(val())
CallBind ==
    /\ TotalCalls < MaxCalls
    /\ calls' = [calls EXCEPT !["bind"] = @ + 1]
    /\ dForces' = [dForces EXCEPT !["bind"] = @ + 1]
    /\ LET v == Run(d) IN
        IF ~v.ok
        THEN Throws("bind") /\ UNCHANGED fApps
        ELSE /\ fApps' = [fApps EXCEPT !["bind"] = @ + 1]
             /\ IF BinderOk
                THEN Returns("bind", BinderResult(v.val))
                ELSE Throws("bind")
    /\ UNCHANGED sortVars
    /\ UNCHANGED <<d, fn, binder, func, funcForces, forcedResults, got>>

\* Mutant of CallApply: () => func()(val()), nothing is done at the call.
CallApplyDeferred ==
    /\ TotalCalls < MaxCalls
    /\ calls' = [calls EXCEPT !["apply"] = @ + 1]
    /\ Returns("apply", Closure("viaD", 0, func.fn))
    /\ UNCHANGED sortVars
    /\ UNCHANGED <<d, fn, binder, func, dForces, fApps, funcForces,
                   forcedResults, got>>

\* applyLazy(val, func) => lazify(func()(val())): func() is evaluated first,
\* then val(), then the application.
CallApply ==
    /\ TotalCalls < MaxCalls
    /\ calls' = [calls EXCEPT !["apply"] = @ + 1]
    /\ funcForces' = funcForces + 1
    /\ LET f == Run(func)
           v == Run(d)
       IN
        IF ~f.ok
        THEN Throws("apply") /\ UNCHANGED <<dForces, fApps>>
        ELSE /\ dForces' = [dForces EXCEPT !["apply"] = @ + 1]
             /\ IF ~v.ok
                THEN Throws("apply") /\ UNCHANGED fApps
                ELSE /\ fApps' = [fApps EXCEPT !["apply"] = @ + 1]
                     /\ IF FnOk(func.fn)
                        THEN Returns("apply", lazified(ApplyFn(func.fn, v.val)))
                        ELSE Throws("apply")
    /\ UNCHANGED sortVars
    /\ UNCHANGED <<d, fn, binder, func, forcedResults, got>>

\* result(): forcing the closure the last call returned.
ForceResult ==
    /\ resOp # "none"
    /\ TotalForces < MaxForces
    /\ LET r == Run(result) IN
        /\ forcedResults' = [forcedResults EXCEPT ![resOp] = @ + 1]
        /\ dForces' = [dForces EXCEPT ![resOp] = @ + r.dForced]
        /\ fApps' = [fApps EXCEPT ![resOp] = @ + r.applied]
        /\ failedAt' = IF r.ok THEN failedAt ELSE [failedAt EXCEPT ![resOp] = "force"]
        /\ got' = IF r.ok THEN r.val ELSE got
    /\ UNCHANGED sortVars
    /\ UNCHANGED <<d, fn, binder, func, calls, funcForces, result, resOp>>

\* The sorting program at rest.
SortIdle ==
    /\ pc = "off"
    /\ input = <<>>
    /\ comparator = "sub"
    /\ nextId = 1
    /\ unsortedArr = None
    /\ stack = <<>>
    /\ sorted = None
    /\ cmpCalls = 0
    /\ elemForces = 0
    /\ cmpForces = 0
    /\ target = "none"
    /\ handles = <<>>
    /\ greedy = <<>>

\* No combinator called yet.
CombFresh ==
    /\ calls = [op \in Ops |-> 0]
    /\ dForces = [op \in Ops |-> 0]
    /\ funcForces = 0
    /\ fApps = [op \in Ops |-> 0]
    /\ result = NoResult
    /\ resOp = "none"
    /\ forcedResults = [op \in Ops |-> 0]
    /\ failedAt = [op \in Ops |-> "none"]
    /\ got = 0

CombInit ==
    /\ SortIdle
    /\ d \in {lazified(v) : v \in DValues} \cup {Thrower}
    /\ fn \in Fns
    /\ binder \in Binders
    /\ func \in {lazifiedFn(f) : f \in Fns} \cup {Thrower}
    /\ CombFresh

CombNext ==
    \/ CallMap
    \/ CallBind
    \/ CallApply
    \/ ForceResult

CombSpec == CombInit /\ [][CombNext]_vars

----------------------------------------------------------------------------
\* Activation record of lazyQuicksort.
Frame(arr) ==
    [arr |-> arr, stage |-> "enter", x |-> None, xs |-> <<>>,
     pool1 |-> <<>>, pool2 |-> <<>>, smallerSorted |-> None,
     biggerSorted |-> None, log |-> <<>>]

Top == stack[Len(stack)]

\* The stack after the innermost call returns val to its caller.
Deliver(val) ==
    LET n == Len(stack) IN
    IF n = 1 THEN <<>>
    ELSE LET caller == stack[n - 1]
             upd == IF caller.stage = "waitSmaller"
                    THEN [caller EXCEPT !.smallerSorted = val, !.stage = "bigger"]
                    ELSE [caller EXCEPT !.biggerSorted = val, !.stage = "ret"]
         IN [SubSeq(stack, 1, n - 1) EXCEPT ![n - 1] = upd]

Init ==
    /\ pc = "start"
    /\ input \in Inputs
    /\ comparator \in Comparators
    /\ nextId = 1
    /\ unsortedArr = None
    /\ stack = <<>>
    /\ sorted = None
    /\ cmpCalls = 0
    /\ elemForces = 0
    /\ cmpForces = 0
    /\ target = "none"
    /\ handles = <<>>
    /\ greedy = <<>>
    /\ d = lazified(5)
    /\ fn = "double"
    /\ binder = "lazifyFn"
    /\ func = lazifiedFn("double")
    /\ CombFresh

\* const unsortedArr = lazyToGreedy(input)
Convert ==
    /\ pc = "start"
    /\ unsortedArr' = lazyToGreedy(input, nextId)
    /\ nextId' = nextId + Len(input) + 1
    /\ pc' = "converted"
    /\ UNCHANGED combVars
    /\ UNCHANGED <<input, comparator, stack, sorted, cmpCalls, elemForces,
                   cmpForces, target, handles, greedy>>

\* const sorted = lazyQuicksort(unsortedArr, comparator): the call.
CallSort ==
    /\ pc = "converted"
    /\ stack' = <<Frame(unsortedArr)>>
    /\ pc' = "sorting"
    /\ UNCHANGED combVars
    /\ UNCHANGED <<input, comparator, nextId, unsortedArr, sorted, cmpCalls,
                   elemForces, cmpForces, target, handles, greedy>>

\* if (!arr().length) return arr;
ReturnEmpty ==
    /\ pc = "sorting"
    /\ Top.stage = "enter"
    /\ Len(Force(Top.arr)) = 0
    /\ stack' = Deliver(Top.arr)
    /\ IF Len(stack) = 1
       THEN sorted' = Top.arr /\ pc' = "sorted"
       ELSE UNCHANGED <<sorted, pc>>
    /\ UNCHANGED combVars
    /\ UNCHANGED <<input, comparator, nextId, unsortedArr, cmpCalls,
                   elemForces, cmpForces, target, handles, greedy>>

\* Mutant of Destructure: the pivot stays in the remainder.
DestructureKeepPivot ==
    /\ pc = "sorting"
    /\ Top.stage = "enter"
    /\ Len(Force(Top.arr)) # 0
    /\ stack' = [stack EXCEPT ![Len(stack)] =
                    [@ EXCEPT !.x = Head(Force(Top.arr)),
                              !.xs = Force(Top.arr),
                              !.stage = "smaller"]]
    /\ UNCHANGED combVars
    /\ UNCHANGED <<pc, input, comparator, nextId, unsortedArr, sorted,
                   cmpCalls, elemForces, cmpForces, target, handles, greedy>>

\* const [x, ...xs] = arr();
Destructure ==
    /\ pc = "sorting"
    /\ Top.stage = "enter"
    /\ Len(Force(Top.arr)) # 0
    /\ stack' = [stack EXCEPT ![Len(stack)] =
                    [@ EXCEPT !.x = Head(Force(Top.arr)),
                              !.xs = Tail(Force(Top.arr)),
                              !.stage = "smaller"]]
    /\ UNCHANGED combVars
    /\ UNCHANGED <<pc, input, comparator, nextId, unsortedArr, sorted,
                   cmpCalls, elemForces, cmpForces, target, handles, greedy>>

\* lazyQuicksort(lazify(xs.filter(... <= 0)), comparator): filter, then call.
FilterSmaller ==
    /\ pc = "sorting"
    /\ Top.stage = "smaller"
    /\ Len(stack) < MaxDepth
    /\ LET p == Partition(Top.xs, Top.x, 1, comparator, cmpCalls) IN
        /\ stack' = Append([stack EXCEPT ![Len(stack)] =
                              [@ EXCEPT !.pool1 = p.pool,
                                        !.log = @ \o p.log,
                                        !.stage = "waitSmaller"]],
                           Frame(lazify(p.pool, nextId)))
        /\ cmpCalls' = cmpCalls + Len(p.log)
        /\ cmpForces' = cmpForces + p.forced
        /\ elemForces' = elemForces + p.forced + p.direct
    /\ nextId' = nextId + 1
    /\ UNCHANGED combVars
    /\ UNCHANGED <<pc, input, comparator, unsortedArr, sorted, target,
                   handles, greedy>>

\* lazyQuicksort(lazify(xs.filter(... > 0)), comparator): filter, then call.
FilterBigger ==
    /\ pc = "sorting"
    /\ Top.stage = "bigger"
    /\ Len(stack) < MaxDepth
    /\ LET p == Partition(Top.xs, Top.x, 2, comparator, cmpCalls) IN
        /\ stack' = Append([stack EXCEPT ![Len(stack)] =
                              [@ EXCEPT !.pool2 = p.pool,
                                        !.log = @ \o p.log,
                                        !.stage = "waitBigger"]],
                           Frame(lazify(p.pool, nextId)))
        /\ cmpCalls' = cmpCalls + Len(p.log)
        /\ cmpForces' = cmpForces + p.forced
        /\ elemForces' = elemForces + p.forced + p.direct
    /\ nextId' = nextId + 1
    /\ UNCHANGED combVars
    /\ UNCHANGED <<pc, input, comparator, unsortedArr, sorted, target,
                   handles, greedy>>

\* return lazify([...smallerSorted(), x, ...biggerSorted()]);
ReturnConcat ==
    /\ pc = "sorting"
    /\ Top.stage = "ret"
    /\ LET val == lazify(Concat(Top.smallerSorted, Top.x, Top.biggerSorted), nextId) IN
        /\ stack' = Deliver(val)
        /\ IF Len(stack) = 1
           THEN sorted' = val /\ pc' = "sorted"
           ELSE UNCHANGED <<sorted, pc>>
    /\ nextId' = nextId + 1
    /\ UNCHANGED combVars
    /\ UNCHANGED <<input, comparator, unsortedArr, cmpCalls, elemForces,
                   cmpForces, target, handles, greedy>>

\* lazyArr(): forcing the outer layer of the array being collapsed, either
\* the converted array (article, "Lazy arrays") or the sorted one (index.ts:21).
CollapseOuter ==
    /\ \/ pc = "converted" /\ target' = "unsorted" /\ handles' = Force(unsortedArr)
       \/ pc = "sorted" /\ target' = "sorted" /\ handles' = Force(sorted)
    /\ pc' = "outer"
    /\ UNCHANGED combVars
    /\ UNCHANGED <<input, comparator, nextId, unsortedArr, stack, sorted,
                   cmpCalls, elemForces, cmpForces, greedy>>

\* .map(l => l()): forcing every element.
CollapseElems ==
    /\ pc = "outer"
    /\ greedy' = CollapseAll(handles)
    /\ elemForces' = elemForces + Len(handles)
    /\ pc' = "done"
    /\ UNCHANGED combVars
    /\ UNCHANGED <<input, comparator, nextId, unsortedArr, stack, sorted,
                   cmpCalls, cmpForces, target, handles>>

Next ==
    \/ Convert
    \/ CallSort
    \/ ReturnEmpty
    \/ Destructure
    \/ FilterSmaller
    \/ FilterBigger
    \/ ReturnConcat
    \/ CollapseOuter
    \/ CollapseElems

Spec == Init /\ [][Next]_vars

\* The calls of lazyQuicksort run to completion: nothing else is scheduled
\* in the single-threaded program, so an enabled step is taken.
FairSpec == Spec /\ WF_vars(Next)

----------------------------------------------------------------------------
\* Helpers of the properties.

Count(seq, v) == Cardinality({i \in DOMAIN seq : seq[i] = v})

Range(seq) == {seq[i] : i \in DOMAIN seq}

\* The closure with identity a stands before the one with identity b, and
\* each of them occurs.
Before(seq, a, b) ==
    \E i, j \in DOMAIN seq : i < j /\ seq[i].id = a /\ seq[j].id = b

SortedOutput == pc = "done" /\ target = "sorted"

----------------------------------------------------------------------------
\* C1: with the subtraction comparator, collapsing the result of
\* lazyQuicksort(lazyToGreedy(xs), cmp) gives a permutation of xs (same
\* length, same multiset) that is non-decreasing under cmp; the article's
\* [2, 4, 1, 3] gives [1, 2, 3, 4].
SortCorrect ==
    (SortedOutput /\ comparator = "sub") =>
        /\ Len(greedy) = Len(input)
        /\ \A v \in Range(input) \cup Range(greedy) :
              Count(greedy, v) = Count(input, v)
        /\ \A i \in 1..(Len(greedy) - 1) :
              LeZero(Minus(ToNumber(greedy[i]), ToNumber(greedy[i + 1])))
        /\ input = ArticleInput => greedy = <<Fin(1), Fin(2), Fin(3), Fin(4)>>

\* The same property for inputs without an infinity: there it holds.
SortCorrectFinite ==
    (\A i \in DOMAIN input : input[i].t # "inf") => SortCorrect

\* C5: lazyQuicksort forces no element itself: while it runs and when it has
\* returned, every element force was made by a comparator result, and with a
\* comparator that forces nothing no element was forced at all.
SortForcesNoElement ==
    pc \in {"sorting", "sorted"} =>
        /\ elemForces = cmpForces
        /\ comparator = "flip" => elemForces = 0
        /\ comparator = "sub" => elemForces = 2 * cmpCalls

SortForcesNoElementWitness ==
    /\ pc = "sorted"
    /\ comparator = "flip"
    /\ Len(input) >= 3
    /\ cmpCalls >= 4
    /\ elemForces = 0

\* C6: an input of length 0 or 1 is sorted with no comparator invocation and
\* comes out equal to the input; for length 0 the closure returned is the
\* input closure itself.
TerminalCases ==
    /\ (pc = "sorted" /\ Len(input) <= 1) =>
          /\ cmpCalls = 0
          /\ Force(sorted) = Force(unsortedArr)
          /\ Len(input) = 0 => sorted = unsortedArr
    /\ (SortedOutput /\ Len(input) <= 1) => greedy = input /\ cmpCalls = 0

TerminalCasesWitness ==
    /\ SortedOutput
    /\ Len(input) = 1
    /\ greedy = input
    /\ cmpCalls = 0
    /\ sorted.id # unsortedArr.id

\* C7: the sort is not stable.  Under the subtraction comparator every
\* element that ties with the first element of the input, and so stood
\* after it, stands before it in the output.
TiesOvertakePivot ==
    (pc = "sorted" /\ comparator = "sub") =>
        \A i \in 2..Len(input) :
            Minus(ToNumber(input[i]), ToNumber(input[1])) = Fin(0) =>
                /\ Before(Force(unsortedArr), Force(unsortedArr)[1].id,
                          Force(unsortedArr)[i].id)
                /\ Before(Force(sorted), Force(unsortedArr)[i].id,
                          Force(unsortedArr)[1].id)
                /\ ~Before(Force(sorted), Force(unsortedArr)[1].id,
                           Force(unsortedArr)[i].id)

TiesOvertakePivotWitness ==
    /\ pc = "sorted"
    /\ comparator = "sub"
    /\ Len(input) = 2
    /\ input[1] = input[2]
    /\ input[1].t = "fin"
    /\ Force(sorted)[1] = Force(unsortedArr)[2]
    /\ Force(sorted)[2] = Force(unsortedArr)[1]

\* C8: collapsing lazyToGreedy(xs) gives xs back; forcing the outer layer
\* alone gives one handle per element, in order, and forces no element.
RoundTrip ==
    /\ (pc = "done" /\ target = "unsorted") => greedy = input
    /\ (pc = "outer" /\ target = "unsorted") =>
          /\ Len(handles) = Len(input)
          /\ \A i \in DOMAIN handles : Force(handles[i]) = input[i]
          /\ \A i, j \in DOMAIN handles : i # j => handles[i].id # handles[j].id
          /\ elemForces = 0

RoundTripWitness ==
    /\ pc = "done"
    /\ target = "unsorted"
    /\ Len(input) >= 3
    /\ input[1] # input[2]
    /\ input[2] # input[3]
    /\ greedy = input
    /\ elemForces = Len(input)

\* C9 as stated: a recursion level on n elements makes n-1 comparator
\* invocations, one per remainder element.
PartitionOncePerElement ==
    \A k \in DOMAIN stack :
        stack[k].stage = "ret" =>
            Len(stack[k].log) = Len(Force(stack[k].arr)) - 1

\* C9 amended: a recursion level on n elements makes 2(n-1) comparator
\* invocations, two per remainder element (one in each filter) and each with
\* the pivot as second argument; the first filter keeps the elements whose
\* result is <= 0, the second those whose result is > 0, and an element
\* whose two results agree is in exactly one pool.
PartitionTwicePerElement ==
    \A k \in DOMAIN stack :
        stack[k].stage = "ret" =>
            LET f == stack[k]
                n == Len(f.xs)
            IN /\ Len(Force(f.arr)) = n + 1
               /\ f.x = Force(f.arr)[1]
               /\ Len(f.log) = 2 * n
               /\ \A i \in 1..n :
                     /\ f.log[i].a = f.xs[i].id /\ f.log[i].b = f.x.id
                     /\ f.log[i].pass = 1
                     /\ f.log[n + i].a = f.xs[i].id /\ f.log[n + i].b = f.x.id
                     /\ f.log[n + i].pass = 2
               /\ f.pool1 = Pick(f.xs, {i \in 1..n : LeZero(f.log[i].res)}, 1)
               /\ f.pool2 = Pick(f.xs, {i \in 1..n : GtZero(f.log[n + i].res)}, 1)
               /\ \A i \in 1..n :
                     f.log[i].res = f.log[n + i].res =>
                        IF f.log[i].res = NaN
                        THEN f.xs[i] \notin Range(f.pool1) \cup Range(f.pool2)
                        ELSE (f.xs[i] \in Range(f.pool1)) # (f.xs[i] \in Range(f.pool2))

PartitionTwicePerElementWitness ==
    /\ pc = "sorting"
    /\ Len(stack) = 1
    /\ Top.stage = "ret"
    /\ comparator = "sub"
    /\ Len(Top.xs) = 3
    /\ Len(Top.log) = 6
    /\ Len(Top.pool1) = 1
    /\ Len(Top.pool2) = 2

\* C10: every call of lazyQuicksort returns, whatever the comparator: each
\* call works on a sequence strictly shorter than its caller's.
StackShrinks ==
    /\ Len(stack) <= Len(input) + 1
    /\ \A k \in 1..(Len(stack) - 1) :
          Len(Force(stack[k + 1].arr)) < Len(Force(stack[k].arr))

SortTerminates ==
    /\ []StackShrinks
    /\ (pc = "sorting") ~> (pc = "sorted")

SortTerminatesWitness ==
    /\ pc = "sorted"
    /\ comparator = "flip"
    /\ Len(input) >= 3
    /\ Len(Force(sorted)) # Len(input)

----------------------------------------------------------------------------
\* Properties of the combinators, under CombSpec.

DOk == d.kind = "lazify"

FuncOk == func.kind = "lazify"

\* C2 as stated: mapLazy is lazy: as long as no closure it returned has
\* been forced, d was not forced, the mapper was not applied and no failure
\* surfaced.
MapDefersForcing ==
    forcedResults["map"] = 0 =>
        /\ dForces["map"] = 0
        /\ fApps["map"] = 0
        /\ failedAt["map"] = "none"

\* C2 amended: mapLazy is eager: each call forces d once and, if d returns,
\* applies the mapper once, both at call time; forcing the returned closure
\* forces nothing and applies nothing, so a failure of d or of the mapper
\* surfaces at the call and never at a force; the closure returned holds
\* the mapped value.
MapForcesAtCall ==
    /\ dForces["map"] = calls["map"]
    /\ fApps["map"] = IF DOk THEN calls["map"] ELSE 0
    /\ failedAt["map"] =
          IF calls["map"] > 0 /\ (~DOk \/ ~FnOk(fn)) THEN "call" ELSE "none"
    /\ resOp = "map" => result = lazified(ApplyFn(fn, d.val))

MapForcesAtCallWitness ==
    /\ calls["map"] = 1
    /\ forcedResults["map"] = 2
    /\ dForces["map"] = 1
    /\ fApps["map"] = 1
    /\ d = lazified(5)
    /\ fn = "double"
    /\ got = 10

BindForcesOncePerCall ==
    /\ dForces["bind"] = calls["bind"]
    /\ resOp = "bind" => result = BinderResult(d.val)
    /\ failedAt["bind"] = "call" <=>
          (calls["bind"] > 0 /\ (~DOk \/ ~BinderOk))

BindForcesOncePerCallWitness ==
    /\ calls["bind"] = 2
    /\ forcedResults["bind"] = 2
    /\ dForces["bind"] = 2
    /\ binder = "lateFn"
    /\ fn = "double"
    /\ d = lazified(5)
    /\ got = 10

====
